---------------------------- MODULE Spec2Model ----------------------------
(***************************************************************************)
(* A model of sqlite-reader: the page-header parser (header.rs), the       *)
(* record decoder (record.rs) and the B-tree traversal and query functions *)
(* of main.rs (parse_page, read_columns, read_index, count_rows_in_table). *)
(*                                                                         *)
(* Bytes are integers 0..255, byte streams are sequences of bytes, strings *)
(* that the program prints or compares are sequences of ASCII codes, and   *)
(* names (tables, columns) are TLA+ strings.  Rust indexes from 0, TLA+    *)
(* from 1: stream[i] of the source is s[i + 1] here.                       *)
(***************************************************************************)
EXTENDS Integers, Sequences, FiniteSets, TLC

VARIABLES
    database,   \* the file: page size, catalog rows and pages (never written)
    query,      \* the query descriptor the functions are called with
    fn,         \* the function that was called, "none" before the call
    pc,         \* where it is: "idle", "scan", "index", "lookup", "done" (returned)
    stack,      \* the nested iterators of the running parse_page, innermost last
    emitted,    \* the items the running parse_page iterator has yielded so far
    rowids,     \* read_index: the HashSet<usize> collected from the index
    lines,      \* what the running function has printed (one entry per println!)
    raws,       \* read_columns/read_index: `output` of each printed row before the trim
    result,     \* "none" while it runs, "Ok" once it returned Ok(()), "Panic" or
                \* "Overflow" once the process died
    arg,        \* the input of the pure function a decoder specification applies
    ret         \* what that function returned

vars == <<database, query, fn, pc, stack, emitted, rowids, lines, raws, result, arg, ret>>

-----------------------------------------------------------------------------
(* Byte streams.                                                           *)

Drop(s, k) == SubSeq(s, k + 1, Len(s))

Take(s, k) == SubSeq(s, 1, k)

Min(a, b) == IF a < b THEN a ELSE b

Pow256(k) == CASE k = 0 -> 1 [] k = 1 -> 256 [] k = 2 -> 65536 [] OTHER -> 16777216

\* uN::from_be_bytes on the first n bytes of a stream (n <= 4, value < 2^31).
RECURSIVE from_be_bytes(_)
from_be_bytes(bs) ==
    IF bs = <<>> THEN 0
    ELSE Head(bs) * Pow256(Len(bs) - 1) + from_be_bytes(Tail(bs))

\* Integer::to_string of a non-negative integer, as ASCII codes.
RECURSIVE to_string(_)
to_string(n) ==
    IF n < 10 THEN <<48 + n>> ELSE Append(to_string(n \div 10), 48 + (n % 10))

\* The ASCII codes the program writes or trims.
Pipe == 124

Str_false == <<102, 97, 108, 115, 101>>

Str_true == <<116, 114, 117, 101>>

-----------------------------------------------------------------------------
(* varint.rs is not among the sources; parse_varint follows the format the *)
(* specification gives: big-endian base-128 groups, the high bit of a byte *)
(* signals continuation, at most 9 bytes, the 9th giving all 8 bits.  Its  *)
(* callers take a plain (value, bytes_read) pair, so a stream that ends    *)
(* before the varint does cannot be an error value: it is a fault.         *)

RECURSIVE varint_go(_, _, _)
varint_go(s, acc, n) ==
    IF s = <<>> THEN [bad |-> TRUE, value |-> 0, read |-> n]
    ELSE IF n = 8 THEN [bad |-> FALSE, value |-> acc * 256 + Head(s), read |-> 9]
    ELSE IF Head(s) >= 128 THEN varint_go(Tail(s), acc * 128 + (Head(s) - 128), n + 1)
    ELSE [bad |-> FALSE, value |-> acc * 128 + Head(s), read |-> n + 1]

parse_varint(stream) == varint_go(stream, 0, 0)

-----------------------------------------------------------------------------
(* record.rs: ColumnValue, its length, its display form, read_usize and    *)
(* parse_column_value.  A ColumnValue is [tag, v, b]: v the integer of the *)
(* integer variants, b the bytes of Blob and Text.  "Err" is the Err(..)   *)
(* of bail!, "Panic" a slice index out of range.                           *)

CV(tag, v, b) == [tag |-> tag, v |-> v, b |-> b]

ColumnValue_length(c) ==
    CASE c.tag = "Null" -> 0
      [] c.tag = "U8" -> 1
      [] c.tag = "U16" -> 2
      [] c.tag = "U24" -> 3
      [] c.tag = "U32" -> 4
      [] c.tag = "U48" -> 6
      [] c.tag = "U64" -> 8
      [] c.tag = "FP64" -> 8
      [] c.tag = "False" -> 0
      [] c.tag = "True" -> 0
      [] c.tag = "Blob" -> Len(c.b)
      [] c.tag = "Text" -> Len(c.b)

IntTags == {"U8", "U16", "U24", "U32", "U48", "U64"}

\* read_usize: the integer variants give their value, every other variant
\* reaches unreachable!() (usable FALSE).
read_usize(c) ==
    IF c.tag \in IntTags THEN [usable |-> TRUE, v |-> c.v] ELSE [usable |-> FALSE, v |-> 0]

\* {:?} of a byte slice, between its brackets: the decimal bytes, ", " between.
RECURSIVE debug_list(_)
debug_list(b) ==
    IF b = <<>> THEN <<>>
    ELSE IF Len(b) = 1 THEN to_string(b[1])
    ELSE to_string(b[1]) \o <<44, 32>> \o debug_list(Tail(b))

\* impl Display: the decimal digits of an integer variant, the empty string
\* for Null, "false" / "true", the bytes of a Text (valid UTF-8 here: ASCII).
Display(c) ==
    CASE c.tag = "Null" -> <<>>
      [] c.tag \in IntTags -> to_string(c.v)
      [] c.tag = "False" -> Str_false
      [] c.tag = "True" -> Str_true
      [] c.tag = "Text" -> c.b
      [] OTHER -> <<91>> \o debug_list(c.b) \o <<93>>

parse_column_value(stream, serial_type) ==
    CASE serial_type = 0 -> CV("Null", 0, <<>>)
      [] serial_type \in 1..4 ->
            IF Len(stream) < serial_type THEN CV("Panic", 0, <<>>)
            ELSE CV(CASE serial_type = 1 -> "U8" [] serial_type = 2 -> "U16"
                      [] serial_type = 3 -> "U24" [] OTHER -> "U32",
                    from_be_bytes(Take(stream, serial_type)), <<>>)
      [] serial_type = 8 -> CV("False", 0, <<>>)
      [] serial_type = 9 -> CV("True", 0, <<>>)
      [] serial_type >= 12 /\ serial_type % 2 = 0 ->
            IF Len(stream) < (serial_type - 12) \div 2 THEN CV("Panic", 0, <<>>)
            ELSE CV("Blob", 0, Take(stream, (serial_type - 12) \div 2))
      [] serial_type >= 13 /\ serial_type % 2 = 1 ->
            IF Len(stream) < (serial_type - 13) \div 2 THEN CV("Panic", 0, <<>>)
            ELSE CV("Text", 0, Take(stream, (serial_type - 13) \div 2))
      [] OTHER -> CV("Err", 0, <<>>)

\* parse_record: the header-size varint, column_count serial-type varints,
\* then the values from offset header_size on.  [tag, rec]: "Ok" with the
\* record, "Err" when a serial type is refused, "Panic" on a slice fault.
RECURSIVE read_serial_types(_, _, _, _)
read_serial_types(stream, offset, count, serial_types) ==
    IF count = 0 THEN [bad |-> FALSE, types |-> serial_types]
    ELSE IF offset > Len(stream) THEN [bad |-> TRUE, types |-> <<>>]
    ELSE CHOOSE r \in { IF varint.bad THEN [bad |-> TRUE, types |-> <<>>]
                        ELSE read_serial_types(stream, offset + varint.read, count - 1,
                                               Append(serial_types, varint.value)) :
                        varint \in {parse_varint(Drop(stream, offset))} } : TRUE

RECURSIVE read_values(_, _, _, _)
read_values(stream, offset, serial_types, record) ==
    IF serial_types = <<>> THEN [tag |-> "Ok", rec |-> record]
    ELSE IF offset > Len(stream) THEN [tag |-> "Panic", rec |-> <<>>]
    ELSE CHOOSE r \in { IF column.tag \in {"Err", "Panic"} THEN [tag |-> column.tag, rec |-> <<>>]
                        ELSE read_values(stream, offset + ColumnValue_length(column),
                                         Tail(serial_types), Append(record, column)) :
                        column \in {parse_column_value(Drop(stream, offset),
                                                       Head(serial_types))} } : TRUE

\* (Each intermediate result is bound once, as an element of a singleton.)
parse_record(stream, column_count) ==
    CHOOSE r \in UNION { UNION { { IF h.bad \/ st.bad THEN [tag |-> "Panic", rec |-> <<>>]
                                    ELSE read_values(s, h.value, st.types, <<>>) :
                                    st \in {read_serial_types(s, h.read, column_count, <<>>)} } :
                                  h \in {parse_varint(s)} } :
                          s \in {stream} } : TRUE

-----------------------------------------------------------------------------
(* header.rs: PageHeader::parse.  [tag, read, header]: "Ok" with the       *)
(* header length and the header, "Err" for an unknown type tag, "Panic"    *)
(* when the slice is shorter than the bytes the function indexes.          *)

NoHeader ==
    [page_type |-> "None", first_free_block_start |-> 0, number_of_cells |-> 0,
     start_of_content_area |-> 0, fragmented_free_bytes |-> 0,
     right_most_pointer |-> [some |-> FALSE, v |-> 0]]

BTreePage(tag) ==
    CASE tag = 2 -> "InteriorIndex"
      [] tag = 5 -> "InteriorTable"
      [] tag = 10 -> "LeafIndex"
      [] tag = 13 -> "LeafTable"
      [] OTHER -> "None"

\* A plausible slip: the pointer read one byte early.
read_right_most_pointer_early(stream) == from_be_bytes(SubSeq(stream, 8, 11))

\* u32::from_be_bytes([stream[8], stream[9], stream[10], stream[11]])
read_right_most_pointer(stream) == from_be_bytes(SubSeq(stream, 9, 12))

PageHeader_parse(stream) ==
    IF Len(stream) < 1 THEN [tag |-> "Panic", read |-> 0, header |-> NoHeader]
    ELSE IF BTreePage(stream[1]) = "None" THEN [tag |-> "Err", read |-> 0, header |-> NoHeader]
    ELSE IF Len(stream) < 8 THEN [tag |-> "Panic", read |-> 0, header |-> NoHeader]
    ELSE LET page_type == BTreePage(stream[1])
             fixed == [page_type |-> page_type,
                       first_free_block_start |-> from_be_bytes(SubSeq(stream, 2, 3)),
                       number_of_cells |-> from_be_bytes(SubSeq(stream, 4, 5)),
                       start_of_content_area |-> from_be_bytes(SubSeq(stream, 6, 7)),
                       fragmented_free_bytes |-> stream[8],
                       right_most_pointer |-> [some |-> FALSE, v |-> 0]]
         IN  IF page_type \in {"InteriorIndex", "InteriorTable"}
             THEN IF Len(stream) < 12 THEN [tag |-> "Panic", read |-> 0, header |-> NoHeader]
                  ELSE [tag |-> "Ok", read |-> 12,
                        header |-> [fixed EXCEPT !.right_most_pointer =
                                       [some |-> TRUE, v |-> read_right_most_pointer(stream)]]]
             ELSE [tag |-> "Ok", read |-> 8, header |-> fixed]

-----------------------------------------------------------------------------
(* The decoders as specifications of their own: Init draws the input, the  *)
(* one action applies the function.  The variables of the query functions  *)
(* are not used.                                                           *)

Unused == <<>>

DecoderIdle ==
    /\ database = Unused /\ query = Unused /\ fn = "none" /\ stack = Unused
    /\ emitted = Unused /\ rowids = Unused /\ lines = Unused /\ raws = Unused
    /\ result = "none"

DecoderVars == <<database, query, fn, stack, emitted, rowids, lines, raws, result>>

\* Bytes at the edges of the signed and unsigned ranges.
SampleBytes == {0, 1, 127, 128, 255}

\* Serial types 0..MaxSerialType; the leading ColBytes bytes of a value vary.
MaxSerialType == 17

ColBytes == 3

\* The longest value of the record format has 8 bytes (U64, FP64).
LongestValue == 8

ColumnStreams ==
    { [i \in 1..LongestValue |-> IF i <= ColBytes THEN s[i] ELSE 0] :
        s \in [1..ColBytes -> SampleBytes] }

\* The values of this model are below 2^31: a 4-byte integer keeps its top
\* bit clear.
ColumnInputs ==
    { a \in [serial_type : 0..MaxSerialType, stream : ColumnStreams] :
        a.serial_type = 4 => a.stream[1] < 128 }

InitColumn ==
    /\ DecoderIdle
    /\ pc = "input"
    /\ arg \in ColumnInputs
    /\ ret = Unused

DecodeColumn ==
    /\ pc = "input"
    /\ ret' = parse_column_value(arg.stream, arg.serial_type)
    /\ pc' = "returned"
    /\ UNCHANGED <<arg, DecoderVars>>

NextColumn == DecodeColumn

SpecColumn == InitColumn /\ [][NextColumn]_vars

\* Page-header streams: every tag byte, cell counts and right-most pointers
\* from small sets, cut to the 8 bytes main.rs hands over at lines 52, 81,
\* 420 and 458 or to the 12 bytes parse_page hands over at line 209.
HeaderStreams ==
    { <<t>> \o f \o n \o <<0, 100>> \o <<g>> \o r :
        t \in 0..255, f \in {<<0, 0>>, <<1, 1>>}, n \in {<<0, 0>>, <<0, 3>>, <<1, 2>>},
        g \in {0, 7}, r \in {<<0, 0, 0, 2>>, <<0, 0, 1, 0>>, <<1, 2, 3, 4>>, <<127, 255, 255, 255>>} }

HeaderInputs == HeaderStreams \cup { Take(s, 8) : s \in HeaderStreams }

InitHeader ==
    /\ DecoderIdle
    /\ pc = "input"
    /\ arg \in HeaderInputs
    /\ ret = Unused

ParseHeader ==
    /\ pc = "input"
    /\ ret' = PageHeader_parse(arg)
    /\ pc' = "returned"
    /\ UNCHANGED <<arg, DecoderVars>>

NextHeader == ParseHeader

SpecHeader == InitHeader /\ [][NextHeader]_vars

-----------------------------------------------------------------------------
(* The files the query functions are run on.  A table "companies" with the *)
(* declared columns id, name, country and an index idx_companies_country   *)
(* on country.  Row k of the table has rowid RowId(k); its record holds    *)
(* Null for the rowid alias id, then NameOf(k) and CountryOf(k).  Index    *)
(* entry (country, rowid) is the record of the two.                        *)

\* The table has up to MaxRows rows, a page up to MaxCells cells, and a
\* tree up to MaxHeight levels.
MaxRows == 4

MaxCells == 2

MaxHeight == 3

\* Logical values: [kind, n, t], an integer n, a text t or null.
IntV(n) == [kind |-> "int", n |-> n, t |-> <<>>]

TextV(t) == [kind |-> "text", n |-> 0, t |-> t]

NullV == [kind |-> "null", n |-> 0, t |-> <<>>]

\* Rowids 0 and 1 (serial types 8 and 9 in an index record), then 100
\* (serial type 1), then 200, 300, ... (serial type 2, two-byte varints).
RowId(k) == IF k <= 2 THEN k - 1 ELSE 100 * (k - 2)

NameOf(k) ==
    CASE k = 1 -> TextV(<<97>>)
      [] k = 2 -> IntV(7)
      [] k = 3 -> NullV
      [] k = 4 -> TextV(<<98, 99>>)
      [] k = 5 -> IntV(1)
      [] OTHER -> IntV(300)

\* "z" for the first two rows, then "y" and "x" in turn: the index order
\* differs from the rowid order.
CountryOf(k) == TextV(IF k <= 2 THEN <<122>> ELSE IF k % 2 = 1 THEN <<121>> ELSE <<120>>)

\* The record format's encoding of a value: its serial type and its bytes.
SerialTypeOf(v) ==
    CASE v.kind = "null" -> 0
      [] v.kind = "text" -> 13 + 2 * Len(v.t)
      [] v.n = 0 -> 8
      [] v.n = 1 -> 9
      [] v.n < 128 -> 1
      [] OTHER -> 2

BytesOf(v) ==
    CASE v.kind = "null" -> <<>>
      [] v.kind = "text" -> v.t
      [] v.n \in {0, 1} -> <<>>
      [] v.n < 128 -> <<v.n>>
      [] OTHER -> <<v.n \div 256, v.n % 256>>

EncodeVarint(v) == IF v < 128 THEN <<v>> ELSE <<128 + (v \div 128), v % 128>>

RECURSIVE Concat(_)
Concat(ss) == IF ss = <<>> THEN <<>> ELSE Head(ss) \o Concat(Tail(ss))

EncodeRecord(values) ==
    LET types == [i \in 1..Len(values) |-> EncodeVarint(SerialTypeOf(values[i]))]
        header == Concat(types)
    IN  EncodeVarint(1 + Len(header)) \o header
            \o Concat([i \in 1..Len(values) |-> BytesOf(values[i])])

TableRecord(k) == EncodeRecord(<<NullV, NameOf(k), CountryOf(k)>>)

IndexRecord(k) == EncodeRecord(<<CountryOf(k), IntV(RowId(k))>>)

be32(n) == <<n \div 16777216, (n \div 65536) % 256, (n \div 256) % 256, n % 256>>

\* A cell: the 4-byte left child of an interior cell, the payload-size
\* varint, the rowid (or key) varint of a table cell, the payload bytes
\* its page holds, and the bytes of the file after them (after), which a
\* read meets only if it runs past the payload: none of them are kept for
\* a cell whose payload is whole.
Cell(left, size, rowid, payload) ==
    [left |-> left, size |-> size, rowid |-> rowid, payload |-> payload, after |-> <<>>]

\* The first 12 bytes of a page: the 8 header bytes and, on an interior
\* page, the right-most pointer (on a leaf, the first cell pointers).
HeaderBytes(tag, ncells, rp) ==
    <<tag, 0, 0, ncells \div 256, ncells % 256, 0, 0, 0>> \o be32(rp)

\* A B-tree before it is laid out in pages: ents are the row numbers of a
\* page's cells (on a table interior page, the row whose rowid is the key),
\* kids the children of an interior page, the right-most child last.
Node(ents, kids) == [ents |-> ents, kids |-> kids]

RECURSIVE Splits(_, _)
Splits(rows, parts) ==
    IF parts = 1 THEN (IF rows = <<>> THEN {} ELSE {<<rows>>})
    ELSE UNION { { <<Take(rows, i)>> \o rest : rest \in Splits(Drop(rows, i), parts - 1) } :
                   i \in 1..(Len(rows) - (parts - 1)) }

Last(s) == s[Len(s)]

RECURSIVE TableTrees(_, _), TableForests(_, _)
TableTrees(rows, h) ==
    IF h = 1 THEN (IF Len(rows) <= MaxCells THEN {Node(rows, <<>>)} ELSE {})
    ELSE UNION { { Node([i \in 1..(Len(segs) - 1) |-> Last(segs[i])], kids) :
                     kids \in TableForests(segs, h - 1) } :
                   segs \in UNION { Splits(rows, k + 1) : k \in 0..MaxCells } }

TableForests(segs, h) ==
    IF segs = <<>> THEN {<<>>}
    ELSE { <<t>> \o f : t \in TableTrees(Head(segs), h), f \in TableForests(Tail(segs), h) }

\* An index interior page keeps k of the entries itself, between k + 1 children.
RECURSIVE IndexSplits(_, _)
IndexSplits(ents, k) ==
    IF k = 0 THEN (IF ents = <<>> THEN {} ELSE {[segs |-> <<ents>>, keys |-> <<>>]})
    ELSE UNION { { [segs |-> <<Take(ents, i)>> \o rest.segs,
                    keys |-> <<ents[i + 1]>> \o rest.keys] :
                     rest \in IndexSplits(Drop(ents, i + 1), k - 1) } :
                   i \in 1..(Len(ents) - 2 * k) }

RECURSIVE IndexTrees(_, _), IndexForests(_, _)
IndexTrees(ents, h) ==
    IF h = 1 THEN (IF Len(ents) <= MaxCells THEN {Node(ents, <<>>)} ELSE {})
    ELSE UNION { { Node(sp.keys, kids) : kids \in IndexForests(sp.segs, h - 1) } :
                   sp \in UNION { IndexSplits(ents, k) : k \in 0..MaxCells } }

IndexForests(segs, h) ==
    IF segs = <<>> THEN {<<>>}
    ELSE { <<t>> \o f : t \in IndexTrees(Head(segs), h), f \in IndexForests(Tail(segs), h) }

RECURSIVE Size(_)
Size(tree) ==
    IF tree.kids = <<>> THEN 1
    ELSE 1 + Size(Head(tree.kids)) + (Size(Node(<<>>, Tail(tree.kids))) - 1)

\* Page ids: the root of a tree at base, then its children from the last
\* to the first, so that ids do not follow the key order.
ChildBase(tree, i, base) ==
    base + Size(Node(<<>>, SubSeq(tree.kids, i + 1, Len(tree.kids))))

TableCells(tree, base) ==
    IF tree.kids = <<>>
    THEN [i \in 1..Len(tree.ents) |->
            Cell(<<>>, EncodeVarint(Len(TableRecord(tree.ents[i]))),
                 EncodeVarint(RowId(tree.ents[i])), TableRecord(tree.ents[i]))]
    ELSE [i \in 1..Len(tree.ents) |->
            Cell(be32(ChildBase(tree, i, base)), <<>>, EncodeVarint(RowId(tree.ents[i])), <<>>)]

IndexCells(tree, base) ==
    [i \in 1..Len(tree.ents) |->
        Cell(IF tree.kids = <<>> THEN <<>> ELSE be32(ChildBase(tree, i, base)),
             EncodeVarint(Len(IndexRecord(tree.ents[i]))), <<>>, IndexRecord(tree.ents[i]))]

PageOf(tree, base, kind) ==
    LET leaf == tree.kids = <<>>
        tag == IF kind = "table" THEN (IF leaf THEN 13 ELSE 5) ELSE (IF leaf THEN 10 ELSE 2)
        rp == IF leaf THEN 0 ELSE ChildBase(tree, Len(tree.kids), base)
    IN  [head |-> HeaderBytes(tag, Len(tree.ents), rp),
         cells |-> IF kind = "table" THEN TableCells(tree, base) ELSE IndexCells(tree, base)]

RECURSIVE PagesOf(_, _, _)
PagesOf(tree, base, kind) ==
    {[id |-> base, page |-> PageOf(tree, base, kind)]}
        \cup UNION { PagesOf(tree.kids[i], ChildBase(tree, i, base), kind) :
                       i \in 1..Len(tree.kids) }

RECURSIVE BytesLess(_, _)
BytesLess(a, b) ==
    IF b = <<>> THEN FALSE
    ELSE IF a = <<>> THEN TRUE
    ELSE IF Head(a) # Head(b) THEN Head(a) < Head(b)
    ELSE BytesLess(Tail(a), Tail(b))

\* The order of an index on country: by country, then by rowid.
EntryLess(j, k) ==
    \/ BytesLess(CountryOf(j).t, CountryOf(k).t)
    \/ CountryOf(j).t = CountryOf(k).t /\ RowId(j) < RowId(k)

IndexOrder(n) == SortSeq([k \in 1..n |-> k], EntryLess)

TableOrder(n) == [k \in 1..n |-> k]

Columns == <<"id", "name", "country">>

\* The file: its page size, its catalog rows in catalog order (the table's
\* before its index's) and its pages from page 2 on, the table's root first.
Database(tt, it) ==
    LET ps == PagesOf(tt, 2, "table") \cup PagesOf(it, 2 + Size(tt), "index")
    IN  [page_size |-> 512,
         schemas |-> <<[kind |-> "table", name |-> "companies", table_name |-> "companies",
                        root_page |-> 2, sql |-> Columns],
                       [kind |-> "index", name |-> "idx_companies_country",
                        table_name |-> "companies", root_page |-> 2 + Size(tt),
                        sql |-> <<"country">>]>>,
         pages |-> [id \in { p.id : p \in ps } |-> (CHOOSE p \in ps : p.id = id).page]]

AllTableTrees(n) == UNION { TableTrees(TableOrder(n), h) : h \in 1..MaxHeight }

AllIndexTrees(n) == UNION { IndexTrees(IndexOrder(n), h) : h \in 1..MaxHeight }

\* Every table shape with a one-leaf index, every index shape with a
\* one-leaf table.
Databases ==
    UNION { { Database(tt, Node(IndexOrder(n), <<>>)) : tt \in AllTableTrees(n) }
              \cup { Database(Node(TableOrder(n), <<>>), it) : it \in AllIndexTrees(n) } :
            n \in 0..MaxRows }

\* Files with a payload that spans more than one page.  The country of
\* row SpilledRow is a text as long as a page, so that its table record
\* and its index record are longer than any page: their cells declare the
\* whole size and hold the first LocalBytes bytes of the payload and the
\* 4-byte number of the first overflow page.  The bytes the file holds
\* after such a cell are those of the next page (Filler), or none when
\* the cell's page is the last of the file.
LocalBytes == 8

SpilledRow == 2

LongCountry == TextV([i \in 1..512 |-> 122])

LongTableRecord == EncodeRecord(<<NullV, NameOf(SpilledRow), LongCountry>>)

LongIndexRecord == EncodeRecord(<<LongCountry, IntV(RowId(SpilledRow))>>)

Filler == [i \in 1..512 |-> 98]

SpillCell(cell, record, overflow_page, after) ==
    [cell EXCEPT !.size = EncodeVarint(Len(record)),
                 !.payload = Take(record, LocalBytes) \o be32(overflow_page),
                 !.after = after]

\* The file db with the cells of row SpilledRow spilled; ends names the
\* tree whose spilled cell lies on the last page of the file.
Spill(db, ends) ==
    LET overflow_page == Cardinality(DOMAIN db.pages) + 2
        spill(cell) ==
            IF cell.payload = TableRecord(SpilledRow)
            THEN SpillCell(cell, LongTableRecord, overflow_page,
                           IF ends = "table" THEN <<>> ELSE Filler)
            ELSE IF cell.payload = IndexRecord(SpilledRow)
            THEN SpillCell(cell, LongIndexRecord, overflow_page + 1,
                           IF ends = "index" THEN <<>> ELSE Filler)
            ELSE cell
    IN  [db EXCEPT !.pages = [id \in DOMAIN db.pages |->
            [db.pages[id] EXCEPT !.cells = [i \in 1..Len(db.pages[id].cells) |->
                spill(db.pages[id].cells[i])]]]]

SpilledDatabases ==
    { Spill(db, ends) :
        db \in { d \in Databases : \E id \in DOMAIN d.pages : \E i \in 1..Len(d.pages[id].cells) :
                    d.pages[id].cells[i].payload = TableRecord(SpilledRow) },
        ends \in {"table", "index", "none"} }

-----------------------------------------------------------------------------
(* main.rs: the query descriptor read_column_and_table returns (the SQL    *)
(* text matching is not modelled), the catalog lookups and the column map. *)

NoWhere == [some |-> FALSE, col |-> "", val |-> <<>>]

Where(col, val) == [some |-> TRUE, col |-> col, val |-> val]

Query(columns, table, where) == [columns |-> columns, table |-> table, where |-> where]

\* schemas.iter().find(..): the position of the first catalog row of the
\* table (of the index idx_companies_country), 0 for None.
find_table(db, table) ==
    IF \E i \in 1..Len(db.schemas) : db.schemas[i].table_name = table
    THEN CHOOSE i \in 1..Len(db.schemas) :
            /\ db.schemas[i].table_name = table
            /\ \A j \in 1..(i - 1) : db.schemas[j].table_name # table
    ELSE 0

find_index(db) ==
    IF \E i \in 1..Len(db.schemas) : db.schemas[i].name = "idx_companies_country"
    THEN CHOOSE i \in 1..Len(db.schemas) :
            /\ db.schemas[i].name = "idx_companies_country"
            /\ \A j \in 1..(i - 1) : db.schemas[j].name # "idx_companies_country"
    ELSE 0

\* find_column_positions: the ordinal of each declared name (of its last
\* declaration: the pairs are collected into a HashMap).
find_column_positions(sql) ==
    [c \in { sql[i] : i \in 1..Len(sql) } |->
        (CHOOSE i \in 1..Len(sql) : sql[i] = c /\ \A j \in (i + 1)..Len(sql) : sql[j] # c) - 1]

-----------------------------------------------------------------------------
(* main.rs: parse_page.  A page is addressed by its id (its offset is      *)
(* page_size * (id - 1)).  The call parses the header at once and, on an   *)
(* interior page, calls itself on the right-most pointer before it returns *)
(* its iterator; everything else happens when the iterator is pulled.      *)

RECURSIVE open_page(_, _, _)
open_page(db, id, fuel) ==
    IF id \notin DOMAIN db.pages THEN "Panic"
    ELSE CHOOSE r \in { IF h.tag # "Ok" THEN "Panic"
                        ELSE IF ~h.header.right_most_pointer.some THEN "Ok"
                        ELSE IF fuel = 0 THEN "Overflow"
                        ELSE open_page(db, h.header.right_most_pointer.v, fuel - 1) :
                        h \in {PageHeader_parse(db.pages[id].head)} } : TRUE

parse_page(db, id) == open_page(db, id, Cardinality(DOMAIN db.pages))

Hdr(db, id) == PageHeader_parse(db.pages[id].head).header

\* The cells the first number_of_cells cell pointers lead to, in the order
\* of the cell pointer array.
CellsOf(db, id) ==
    Take(db.pages[id].cells, Min(Hdr(db, id).number_of_cells, Len(db.pages[id].cells)))

Interior(db, id) == Hdr(db, id).page_type \in {"InteriorTable", "InteriorIndex"}

Frame(id) == [page |-> id, idx |-> 0, part |-> "cells"]

\* &stream[offset..]: the bytes of the file from the start of a cell's
\* payload on.
PayloadStream(cell) == cell.payload \o cell.after

\* &stream[offset..offset + payload_size]: the payload slice of an index
\* cell, the declared payload_size bytes from the start of the payload.
PayloadSlice(cell) == Take(PayloadStream(cell), parse_varint(cell.size).value)

\* parse_record(&stream[offset..offset + payload_size], 2): the slice
\* panics when the file ends before the declared size.
index_record(cell) ==
    IF parse_varint(cell.size).value > Len(PayloadStream(cell))
    THEN [tag |-> "Panic", rec |-> <<>>]
    ELSE parse_record(PayloadSlice(cell), 2)

\* &database[row.offset..]: the bytes from the start of a record on.
StreamAt(db, offset) == PayloadStream(db.pages[offset.page].cells[offset.cell])

Item(rowid, column_count, page, cell) ==
    [rowid |-> rowid,
     meta |-> [column_count |-> column_count, offset |-> [page |-> page, cell |-> cell]]]

-----------------------------------------------------------------------------
(* main.rs: what read_columns and read_index do with one item (rowid, row) *)
(* of the iterator.  [tag, output, v]: "print" with the row's output       *)
(* string, "collect" with a rowid for the HashSet, "skip", or "Panic" (an  *)
(* unwrap of None or Err, unreachable!()).                                 *)

Body(tag, output, v) == [tag |-> tag, output |-> output, v |-> v]

\* A plausible slip: the column map's ordinal used as a 1-based position.
column_text_off_by_one(db, column, column_map, item) ==
    IF column = "id" THEN [tag |-> "Ok", text |-> Display(item.rowid)]
    ELSE IF column \notin DOMAIN column_map THEN [tag |-> "Panic", text |-> <<>>]
    ELSE LET record == parse_record(StreamAt(db, item.meta.offset), item.meta.column_count)
             cpos == column_map[column]
         IN  IF record.tag # "Ok" \/ cpos + 1 > Len(record.rec) \/ cpos = 0
             THEN [tag |-> "Panic", text |-> <<>>]
             ELSE [tag |-> "Ok", text |-> Display(record.rec[cpos])]

\* One projected column: the rowid for "id", else the display form of the
\* record's value at the column's ordinal.
column_text(db, column, column_map, item) ==
    IF column = "id" THEN [tag |-> "Ok", text |-> Display(item.rowid)]
    ELSE IF column \notin DOMAIN column_map THEN [tag |-> "Panic", text |-> <<>>]
    ELSE LET record == parse_record(StreamAt(db, item.meta.offset), item.meta.column_count)
             cpos == column_map[column]
         IN  IF record.tag # "Ok" \/ cpos + 1 > Len(record.rec)
             THEN [tag |-> "Panic", text |-> <<>>]
             ELSE [tag |-> "Ok", text |-> Display(record.rec[cpos + 1])]

\* The loop over the projected columns: each text, then '|', pushed to output.
RECURSIVE project(_, _, _, _, _)
project(db, columns, column_map, item, output) ==
    IF columns = <<>> THEN [tag |-> "Ok", text |-> output]
    ELSE CHOOSE r \in { IF c.tag # "Ok" THEN c
                        ELSE project(db, Tail(columns), column_map, item,
                                     output \o c.text \o <<Pipe>>) :
                        c \in {column_text(db, Head(columns), column_map, item)} } : TRUE

\* output.trim_end_matches('|')
RECURSIVE trim_end_matches(_)
trim_end_matches(s) ==
    IF s # <<>> /\ Last(s) = Pipe THEN trim_end_matches(Take(s, Len(s) - 1)) ELSE s

print_row(db, q, column_map, item) ==
    LET p == project(db, q.columns, column_map, item, <<>>)
    IN  IF p.tag # "Ok" THEN Body("Panic", <<>>, 0) ELSE Body("print", p.text, 0)

\* read_columns: if let Some(wc) = where_clause { ... continue }
row_matches(db, wc, column_map, item) ==
    IF wc.col \notin DOMAIN column_map THEN "Panic"
    ELSE LET record == parse_record(StreamAt(db, item.meta.offset), item.meta.column_count)
             colidx == column_map[wc.col]
         IN  IF record.tag # "Ok" \/ colidx + 1 > Len(record.rec) THEN "Panic"
             ELSE IF Display(record.rec[colidx + 1]) # wc.val THEN "skip" ELSE "keep"

\* read_columns: the body of `for (rowid, row) in rows.unwrap()`.
scan_body(db, q, column_map, item) ==
    LET m == IF q.where.some THEN row_matches(db, q.where, column_map, item) ELSE "keep"
    IN  CASE m = "Panic" -> Body("Panic", <<>>, 0)
          [] m = "skip" -> Body("skip", <<>>, 0)
          [] OTHER -> print_row(db, q, column_map, item)

\* read_index: the filter_map and map closures of the rowids collection.
collect_body(db, q, item) ==
    LET record == parse_record(StreamAt(db, item.meta.offset), 2)
    IN  IF record.tag # "Ok" \/ ~q.where.some THEN Body("Panic", <<>>, 0)
        ELSE IF Display(record.rec[1]) # q.where.val THEN Body("skip", <<>>, 0)
        ELSE IF ~read_usize(item.rowid).usable THEN Body("Panic", <<>>, 0)
        ELSE Body("collect", <<>>, read_usize(item.rowid).v)

\* read_index: the filter on the table rows and the body of the for loop.
lookup_body(db, q, column_map, set, item) ==
    IF ~read_usize(item.rowid).usable THEN Body("Panic", <<>>, 0)
    ELSE IF read_usize(item.rowid).v \notin set THEN Body("skip", <<>>, 0)
    ELSE print_row(db, q, column_map, item)

-----------------------------------------------------------------------------
(* The calls.  The file is read and its catalog loaded; then one of        *)
(* read_columns, read_index and count_rows_in_table is called with a query *)
(* and runs to its end, the iterator of parse_page advancing one page      *)
(* move or one item at a time.                                             *)

\* The literals 'x', 'y', 'z', 'q' and '7'.
Queries ==
    { Query(<<"id", "name">>, "companies", NoWhere),
      Query(<<"country", "id", "name">>, "companies", NoWhere),
      Query(<<"name">>, "companies", NoWhere),
      Query(<<"id", "name">>, "companies", Where("country", <<120>>)),
      Query(<<"name", "id">>, "companies", Where("country", <<121>>)),
      Query(<<"id", "country">>, "companies", Where("country", <<122>>)),
      Query(<<"id">>, "companies", Where("country", <<113>>)),
      Query(<<"country">>, "companies", Where("name", <<55>>)),
      Query(<<"nope">>, "companies", NoWhere),
      Query(<<"id">>, "companies", Where("nope", <<120>>)),
      Query(<<"id">>, "missing", NoWhere) }

NoQuery == Query(<<>>, "", NoWhere)

Init ==
    /\ database \in Databases
    /\ query = NoQuery
    /\ fn = "none"
    /\ pc = "idle"
    /\ stack = <<>>
    /\ emitted = <<>>
    /\ rowids = {}
    /\ lines = <<>>
    /\ raws = <<>>
    /\ result = "none"
    /\ arg = Unused
    /\ ret = Unused

Top == stack[Len(stack)]

Front == Take(stack, Len(stack) - 1)

ColumnMap == find_column_positions(database.schemas[find_table(database, query.table)].sql)

\* The process dies where it is: a panic, or the stack overflow of an
\* endless recursion.
Die(how) == result' = how /\ UNCHANGED <<pc, stack>>

\* The nesting of iterators (and of calls of next) the stack of the
\* process has room for; a file without a cycle never needs as much.
StackLimit == 6

\* The iterator of a page is entered: the nesting grows, or the stack of
\* the process is exhausted.
Enter(frames) ==
    IF Len(frames) > StackLimit THEN Die("Overflow")
    ELSE stack' = frames /\ UNCHANGED <<pc, result>>

\* parse_page(root): the iterator over the tree at root, or the fault of the call.
Traverse(root, at) ==
    \E opened \in {parse_page(database, root)} :
        IF opened # "Ok" THEN Die(IF opened = "Panic" THEN "Panic" ELSE "Overflow")
        ELSE pc' = at /\ stack' = <<Frame(root)>> /\ result' = result

StartReadColumns(q) ==
    /\ pc = "idle" /\ result = "none"
    /\ query' = q
    /\ fn' = "read_columns"
    /\ IF find_table(database, q.table) = 0 THEN Die("Panic")
       ELSE Traverse(database.schemas[find_table(database, q.table)].root_page, "scan")
    /\ UNCHANGED <<database, emitted, rowids, lines, raws, arg, ret>>

StartReadIndex(q) ==
    /\ pc = "idle" /\ result = "none"
    /\ query' = q
    /\ fn' = "read_index"
    /\ IF find_table(database, q.table) = 0 \/ find_index(database) = 0 THEN Die("Panic")
       ELSE Traverse(database.schemas[find_index(database)].root_page, "index")
    /\ UNCHANGED <<database, emitted, rowids, lines, raws, arg, ret>>

\* count_rows_in_table, whole: the header of the root page parsed from its
\* first 8 bytes, its number_of_cells printed.
CountRowsInTable(q) ==
    /\ pc = "idle" /\ result = "none"
    /\ query' = q
    /\ fn' = "count_rows_in_table"
    /\ LET t == find_table(database, q.table)
           root == database.schemas[t].root_page
           h == PageHeader_parse(Take(database.pages[root].head, 8))
       IN  IF t = 0 THEN Die("Panic") /\ lines' = lines
           ELSE IF root \notin DOMAIN database.pages \/ h.tag # "Ok"
                THEN Die("Panic") /\ lines' = lines
                ELSE /\ pc' = "done" /\ result' = "Ok" /\ stack' = stack
                     /\ lines' = <<to_string(h.header.number_of_cells)>>
    /\ UNCHANGED <<database, emitted, rowids, raws, arg, ret>>

\* The consumer's side of one item: the loop body of the running function.
Consume(yielded, rest) ==
    \E item \in {yielded}, column_map \in {ColumnMap} :
    \E b \in { CASE pc = "scan" -> scan_body(database, query, column_map, item)
                 [] pc = "index" -> collect_body(database, query, item)
                 [] OTHER -> lookup_body(database, query, column_map, rowids, item) } :
        /\ emitted' = Append(emitted, item)
        /\ IF b.tag = "Panic"
           THEN Die("Panic") /\ UNCHANGED <<rowids, lines, raws>>
           ELSE /\ pc' = pc
                /\ result' = result
                /\ stack' = rest
                /\ rowids' = IF b.tag = "collect" THEN rowids \cup {b.v} ELSE rowids
                /\ lines' = IF b.tag = "print" THEN Append(lines, trim_end_matches(b.output))
                            ELSE lines
                /\ raws' = IF b.tag = "print" THEN Append(raws, b.output) ELSE raws

Running == pc \in {"scan", "index", "lookup"} /\ result = "none" /\ stack # <<>>

TopCells == CellsOf(database, Top.page)

TopType == Hdr(database, Top.page).page_type

\* A plausible slip: the cell pointer array walked from its end.
cell_at_reversed(cells, idx) == cells[Len(cells) - idx]

\* The cell of the idx-th cell pointer (idx from 0).
cell_at(cells, idx) == cells[idx + 1]

\* A plausible slip: the index interior cell handled like a table interior
\* cell, its own key never yielded.
descend_frames_no_key(top, child, page_type) ==
    <<[top EXCEPT !.idx = top.idx + 1], Frame(child)>>

\* A plausible variant: a left child pointer that leads back to its own
\* page is noticed and the cell passed over.
descend_frames_unless_self(top, child, page_type) ==
    IF child = top.page THEN <<[top EXCEPT !.idx = top.idx + 1]>>
    ELSE IF page_type = "InteriorIndex"
    THEN <<[top EXCEPT !.part = "own"], Frame(child)>>
    ELSE <<[top EXCEPT !.idx = top.idx + 1], Frame(child)>>

\* The frames after the closure of an interior cell has called parse_page
\* on the left child: a table cell is done, an index cell still owes its
\* own key, chained after the child's items.
descend_frames(top, child, page_type) ==
    IF page_type = "InteriorIndex"
    THEN <<[top EXCEPT !.part = "own"], Frame(child)>>
    ELSE <<[top EXCEPT !.idx = top.idx + 1], Frame(child)>>

\* The closure of an interior page's filter_map runs for the next cell.
Descend ==
    /\ Running
    /\ Interior(database, Top.page) /\ Top.part = "cells" /\ Top.idx < Len(TopCells)
    /\ \E cell \in {cell_at(TopCells, Top.idx)} :
       \E left_child_id \in {from_be_bytes(cell.left)} :
       \E record \in {index_record(cell)}, opened \in {parse_page(database, left_child_id)} :
           IF TopType = "InteriorIndex" /\ record.tag # "Ok" THEN Die("Panic")
           ELSE IF opened # "Ok" THEN Die(IF opened = "Panic" THEN "Panic" ELSE "Overflow")
           ELSE Enter(Front \o descend_frames(Top, left_child_id, TopType))
    /\ UNCHANGED <<database, query, fn, emitted, rowids, lines, raws, arg, ret>>

\* An index interior cell yields its own key after its left child's items.
OwnKey ==
    /\ Running
    /\ Top.part = "own"
    /\ \E record \in {index_record(cell_at(TopCells, Top.idx))} :
           Consume(Item(record.rec[2], 2, Top.page, Top.idx + 1),
                   Append(Front, [Top EXCEPT !.idx = Top.idx + 1, !.part = "cells"]))
    /\ UNCHANGED <<database, query, fn, arg, ret>>

\* After the cells, the iterator of the right-most pointer.
RightMost ==
    /\ Running
    /\ Interior(database, Top.page) /\ Top.part = "cells" /\ Top.idx >= Len(TopCells)
    /\ Enter(Append(Front, [Top EXCEPT !.part = "rp"])
                 \o <<Frame(Hdr(database, Top.page).right_most_pointer.v)>>)
    /\ UNCHANGED <<database, query, fn, emitted, rowids, lines, raws, arg, ret>>

\* A leaf cell yields its item.
LeafYield ==
    /\ Running
    /\ ~Interior(database, Top.page) /\ Top.idx < Len(TopCells)
    /\ \E cell \in {cell_at(TopCells, Top.idx)},
          rest \in {Append(Front, [Top EXCEPT !.idx = Top.idx + 1])} :
       \E record \in {index_record(cell)}, rowid \in {parse_varint(cell.rowid)} :
           IF TopType = "LeafTable"
           THEN IF parse_varint(cell.size).bad \/ rowid.bad
                THEN Die("Panic") /\ UNCHANGED <<emitted, rowids, lines, raws>>
                ELSE Consume(Item(CV("U64", rowid.value, <<>>), Cardinality(DOMAIN ColumnMap),
                                  Top.page, Top.idx + 1), rest)
           ELSE IF record.tag # "Ok"
                THEN Die("Panic") /\ UNCHANGED <<emitted, rowids, lines, raws>>
                ELSE Consume(Item(record.rec[2], 2, Top.page, Top.idx + 1), rest)
    /\ UNCHANGED <<database, query, fn, arg, ret>>

\* An exhausted iterator is left for the one that contains it.
Return ==
    /\ Running
    /\ IF Interior(database, Top.page) THEN Top.part = "rp" ELSE Top.idx >= Len(TopCells)
    /\ stack' = Front
    /\ UNCHANGED <<database, query, fn, pc, emitted, rowids, lines, raws, result, arg, ret>>

\* The iterator is exhausted: read_columns returns Ok(()), read_index goes
\* from the index tree to the table tree, and returns after the table tree.
Finish ==
    /\ pc \in {"scan", "index", "lookup"} /\ result = "none" /\ stack = <<>>
    /\ IF pc = "index"
       THEN /\ Traverse(database.schemas[find_table(database, query.table)].root_page, "lookup")
            /\ emitted' = <<>>
       ELSE pc' = "done" /\ result' = "Ok" /\ stack' = <<>> /\ emitted' = emitted
    /\ UNCHANGED <<database, query, fn, rowids, lines, raws, arg, ret>>

Next ==
    \/ \E q \in Queries : StartReadColumns(q)
    \/ \E q \in Queries : StartReadIndex(q)
    \/ \E q \in Queries : CountRowsInTable(q)
    \/ Descend
    \/ OwnKey
    \/ RightMost
    \/ LeafYield
    \/ Return
    \/ Finish

Spec == Init /\ [][Next]_vars

\* The same calls on the files with a spilled payload.
InitOverflow ==
    /\ database \in SpilledDatabases
    /\ query = NoQuery
    /\ fn = "none"
    /\ pc = "idle"
    /\ stack = <<>>
    /\ emitted = <<>>
    /\ rowids = {}
    /\ lines = <<>>
    /\ raws = <<>>
    /\ result = "none"
    /\ arg = Unused
    /\ ret = Unused

SpecOverflow == InitOverflow /\ [][Next]_vars

-----------------------------------------------------------------------------
(* main.rs, schema.rs: read_db_header, the loader of the catalog.  The     *)
(* catalog is the table B-tree rooted at page 1; row k has rowid k and the *)
(* five columns kind, name, table_name, root_page, sql.                    *)

\* ColumnValue::read_string and ColumnValue::read_u8, as Schema::parse
\* uses them on a Text and on a one-byte integer.
read_string(c) == c.b

read_u8(c) == c.v % 256

\* Schema::parse: None when the record has fewer than five items.
Schema_parse(record) ==
    IF Len(record) < 5 THEN [some |-> FALSE]
    ELSE [some |-> TRUE,
          kind |-> read_string(record[1]),
          name |-> read_string(record[2]),
          table_name |-> read_string(record[3]),
          root_page |-> read_u8(record[4]),
          sql |-> read_string(record[5])]

\* The closure of read_db_header over the cell pointers, from cell i on:
\* payload size and rowid varints, parse_record with five columns,
\* Schema::parse; the unwrap and the expect panic.
RECURSIVE collect_schemas(_, _, _)
collect_schemas(cells, i, schemas) ==
    IF i > Len(cells) THEN [tag |-> "Ok", schemas |-> schemas]
    ELSE LET record == parse_record(PayloadStream(cells[i]), 5)
         IN  IF parse_varint(cells[i].size).bad \/ parse_varint(cells[i].rowid).bad
                  \/ record.tag # "Ok" \/ ~Schema_parse(record.rec).some
             THEN [tag |-> "Panic", schemas |-> <<>>]
             ELSE collect_schemas(cells, i + 1, Append(schemas, Schema_parse(record.rec)))

\* read_db_header: the header of page 1 parsed from &database[100..108],
\* the cells of its first number_of_cells cell pointers read as catalog rows.
read_db_header(db) ==
    LET h == PageHeader_parse(Take(db.pages[1].head, 8))
    IN  IF h.tag # "Ok" THEN [tag |-> h.tag, schemas |-> <<>>]
        ELSE collect_schemas(Take(db.pages[1].cells,
                                  Min(h.header.number_of_cells, Len(db.pages[1].cells))),
                             1, <<>>)

\* The texts "table" and "index".
Str_table == <<116, 97, 98, 108, 101>>

Str_index == <<105, 110, 100, 101, 120>>

\* Catalog row k of a file of a given flavour: tables and indexes in
\* turn, named "n<k>" on table "t<k>", rooted at page k + flavour.
Flavours == 1..3

CatalogEntry(k, flavour) ==
    [some |-> TRUE,
     kind |-> IF (k + flavour) % 2 = 0 THEN Str_table ELSE Str_index,
     name |-> <<110, 48 + k>>,
     table_name |-> <<116, 48 + k>>,
     root_page |-> k + flavour,
     sql |-> <<115>>]

CatalogRecord(k, flavour) ==
    LET e == CatalogEntry(k, flavour)
    IN  EncodeRecord(<<TextV(e.kind), TextV(e.name), TextV(e.table_name),
                       IntV(e.root_page), TextV(e.sql)>>)

CatalogCells(tree, base, flavour) ==
    IF tree.kids = <<>>
    THEN [i \in 1..Len(tree.ents) |->
            Cell(<<>>, EncodeVarint(Len(CatalogRecord(tree.ents[i], flavour))),
                 EncodeVarint(tree.ents[i]), CatalogRecord(tree.ents[i], flavour))]
    ELSE [i \in 1..Len(tree.ents) |->
            Cell(be32(ChildBase(tree, i, base)), <<>>, EncodeVarint(tree.ents[i]), <<>>)]

RECURSIVE CatalogPagesOf(_, _, _)
CatalogPagesOf(tree, base, flavour) ==
    LET leaf == tree.kids = <<>>
        rp == IF leaf THEN 0 ELSE ChildBase(tree, Len(tree.kids), base)
    IN  {[id |-> base,
          page |-> [head |-> HeaderBytes(IF leaf THEN 13 ELSE 5, Len(tree.ents), rp),
                    cells |-> CatalogCells(tree, base, flavour)]]}
            \cup UNION { CatalogPagesOf(tree.kids[i], ChildBase(tree, i, base), flavour) :
                           i \in 1..Len(tree.kids) }

\* A file whose catalog is the given tree, its root on page 1.
CatalogFile(tree, flavour) ==
    LET ps == CatalogPagesOf(tree, 1, flavour)
    IN  [page_size |-> 512, flavour |-> flavour,
         pages |-> [id \in { p.id : p \in ps } |-> (CHOOSE p \in ps : p.id = id).page]]

CatalogFiles ==
    { CatalogFile(tree, flavour) :
        tree \in UNION { AllTableTrees(n) : n \in 0..MaxRows }, flavour \in Flavours }

InitCatalog ==
    /\ database \in CatalogFiles
    /\ query = Unused /\ fn = Unused /\ stack = Unused /\ emitted = Unused
    /\ rowids = Unused /\ lines = Unused /\ raws = Unused /\ result = Unused
    /\ arg = Unused
    /\ pc = "input"
    /\ ret = Unused

ReadDbHeader ==
    /\ pc = "input"
    /\ ret' = read_db_header(database)
    /\ pc' = "returned"
    /\ UNCHANGED <<database, query, fn, stack, emitted, rowids, lines, raws, result, arg>>

NextCatalog == ReadDbHeader

SpecCatalog == InitCatalog /\ [][NextCatalog]_vars

-----------------------------------------------------------------------------
(* Files with a cycle: one child pointer of an interior page of a tree     *)
(* leads to the page itself or to one of its ancestors.                    *)

\* The pages the child pointers of an interior page lead to.
Kids(db, id) ==
    { from_be_bytes(CellsOf(db, id)[i].left) : i \in 1..Len(CellsOf(db, id)) }
        \cup {Hdr(db, id).right_most_pointer.v}

\* The pages on the way from page id down to page p, both included; none
\* when p is not below id.
RECURSIVE PathTo(_, _, _)
PathTo(db, id, p) ==
    IF id = p THEN {p}
    ELSE IF ~Interior(db, id) THEN {}
    ELSE LET below == UNION { PathTo(db, c, p) : c \in Kids(db, id) }
         IN  IF below = {} THEN {} ELSE below \cup {id}

\* Child pointer number slot of page p redirected to page target: slot 0
\* is the right-most pointer, slot i the left child of cell i.
Redirect(db, p, slot, target) ==
    [db EXCEPT !.pages[p] =
        IF slot = 0
        THEN [@ EXCEPT !.head = Take(@, 8) \o be32(target)]
        ELSE [@ EXCEPT !.cells[slot].left = be32(target)]]

Roots(db) == { db.schemas[i].root_page : i \in 1..Len(db.schemas) }

\* The files of three rows: every table shape and every index shape.
TraversalDatabases ==
    { Database(tt, Node(IndexOrder(3), <<>>)) : tt \in AllTableTrees(3) }
        \cup { Database(Node(TableOrder(3), <<>>), it) : it \in AllIndexTrees(3) }

CyclicDatabases ==
    UNION { UNION { UNION { { Redirect(db, p, slot, target) :
                                slot \in 0..Len(db.pages[p].cells),
                                target \in PathTo(db, root, p) } :
                            p \in { q \in DOMAIN db.pages :
                                      Interior(db, q) /\ PathTo(db, root, q) # {} } } :
                    root \in Roots(db) } :
            db \in TraversalDatabases }

\* A traversal of each tree: a full scan, and a lookup through the index
\* for the literal 'y', which the rows with rowid 0 and 1 do not have.
TraversalQueries ==
    { Query(<<"id", "name">>, "companies", NoWhere),
      Query(<<"id">>, "companies", Where("country", <<121>>)) }

InitTraversal ==
    /\ database \in TraversalDatabases \cup CyclicDatabases
    /\ query = NoQuery
    /\ fn = "none"
    /\ pc = "idle"
    /\ stack = <<>>
    /\ emitted = <<>>
    /\ rowids = {}
    /\ lines = <<>>
    /\ raws = <<>>
    /\ result = "none"
    /\ arg = Unused
    /\ ret = Unused

\* A step of a started call: the process runs until it returns or dies.
Step ==
    \/ Descend
    \/ OwnKey
    \/ RightMost
    \/ LeafYield
    \/ Return
    \/ Finish

NextTraversal ==
    \/ \E q \in TraversalQueries : StartReadColumns(q)
    \/ \E q \in TraversalQueries : q.where.some /\ StartReadIndex(q)
    \/ Step

SpecTraversal == InitTraversal /\ [][NextTraversal]_vars /\ WF_vars(Step)

-----------------------------------------------------------------------------
(* The decoders' claims.                                                   *)

\* The serial-type table of the record format: the kind and the byte
\* length of the value of each serial type.
TableKind(st) ==
    CASE st = 0 -> "Null" [] st = 1 -> "U8" [] st = 2 -> "U16" [] st = 3 -> "U24"
      [] st = 4 -> "U32" [] st = 5 -> "U48" [] st = 6 -> "U64" [] st = 7 -> "FP64"
      [] st = 8 -> "False" [] st = 9 -> "True"
      [] st >= 12 /\ st % 2 = 0 -> "Blob"
      [] st >= 13 /\ st % 2 = 1 -> "Text"
      [] OTHER -> "Err"

TableLength(st) ==
    CASE st \in {0, 8, 9, 10, 11} -> 0
      [] st \in 1..4 -> st
      [] st = 5 -> 6
      [] st \in {6, 7} -> 8
      [] st % 2 = 0 -> (st - 12) \div 2
      [] OTHER -> (st - 13) \div 2

\* C6: parse_column_value decodes every serial type of the table to a
\* value of the listed kind and byte length (0, 8, 9: none; 1..4: 1..4
\* bytes; 5: 6 bytes; 6, 7: 8 bytes; even >= 12: blob of (st-12)/2 bytes;
\* odd >= 13: text of (st-13)/2 bytes), and fails for 10 and 11.
C6_SerialTypeTable ==
    pc = "returned" =>
        /\ ret.tag = TableKind(arg.serial_type)
        /\ ret.tag # "Err" => ColumnValue_length(ret) = TableLength(arg.serial_type)

\* The decimal form of the two's-complement big-endian integer in bs.
SignedDecimal(bs) ==
    IF bs[1] >= 128
    THEN <<45>> \o to_string(2 * (128 * Pow256(Len(bs) - 1)) - from_be_bytes(bs))
    ELSE to_string(from_be_bytes(bs))

\* C7: the integer of serial types 1, 2, 3 and 4 is decoded and displayed
\* sign-extended: a value whose top bit is set shows as the negative number
\* unsigned - 2^(8 * width).
C7_SignExtended ==
    pc = "returned" /\ arg.serial_type \in 1..4 =>
        Display(ret) = SignedDecimal(Take(arg.stream, arg.serial_type))

-----------------------------------------------------------------------------
(* The query functions' claims.  What a file holds is read off its pages   *)
(* as sets, without walking the trees: the rows of the table are the cells *)
(* of its leaf pages, the entries of the index the cells of its pages.     *)

Offsets(db, tags) ==
    UNION { { [page |-> id, cell |-> i] : i \in 1..Len(db.pages[id].cells) } :
              id \in { p \in DOMAIN db.pages : db.pages[p].head[1] \in tags } }

TableRows(db) == Offsets(db, {13})

IndexEntries(db) == Offsets(db, {2, 10})

CellAt(db, o) == db.pages[o.page].cells[o.cell]

RowidAt(db, o) == parse_varint(CellAt(db, o).rowid).value

EmittedOffsets == [i \in 1..Len(emitted) |-> emitted[i].meta.offset]

Range(s) == { s[i] : i \in 1..Len(s) }

\* The iterator over the table tree runs or has run to its end.
TableTraversal ==
    \/ pc \in {"scan", "lookup"}
    \/ pc = "done" /\ fn \in {"read_columns", "read_index"}

\* The order the traversal is to follow, written out for a whole tree:
\* on an interior page the cells in the order of the cell pointer array,
\* for each the rows of its left child and then, on an index page, the
\* cell itself, and after all cells the rows of the right-most child; on a
\* leaf page the cells in the order of the cell pointer array.
RECURSIVE InOrder(_, _)
InOrder(db, id) ==
    LET cells == db.pages[id].cells
        tag == db.pages[id].head[1]
    IN  IF tag \in {10, 13} THEN [i \in 1..Len(cells) |-> [page |-> id, cell |-> i]]
        ELSE Concat([i \in 1..Len(cells) |->
                        InOrder(db, from_be_bytes(cells[i].left))
                            \o (IF tag = 2 THEN <<[page |-> id, cell |-> i]>> ELSE <<>>)])
                 \o InOrder(db, from_be_bytes(SubSeq(db.pages[id].head, 9, 12)))

TableRoot(db) == db.schemas[1].root_page

IndexRoot(db) == db.schemas[2].root_page

\* C1: the table-tree traversal yields the rows of the tree in strictly
\* ascending rowid order, on a tree of any height: the rows of the left
\* child of cell i before those of cell i + 1, the rows of the right-most
\* child after all of them, the cells of a leaf in the order of the cell
\* pointer array; every row once the traversal is exhausted.
C1_TableOrder ==
    TableTraversal =>
        /\ \A i \in 1..Len(emitted) :
              /\ emitted[i].meta.offset \in TableRows(database)
              /\ emitted[i].rowid = CV("U64", RowidAt(database, emitted[i].meta.offset), <<>>)
        /\ \A i, j \in 1..Len(emitted) : i < j => emitted[i].rowid.v < emitted[j].rowid.v
        /\ EmittedOffsets = Take(InOrder(database, TableRoot(database)), Len(emitted))
        /\ stack = <<>> =>
              /\ Range(EmittedOffsets) = TableRows(database)
              /\ EmittedOffsets = InOrder(database, TableRoot(database))

RECURSIVE TreeHeight(_, _)
TreeHeight(db, id) ==
    IF Interior(db, id) THEN 1 + TreeHeight(db, Hdr(db, id).right_most_pointer.v) ELSE 1

\* A scan of a three-level table tree with at least three rows has ended.
C1_Witness ==
    /\ pc = "scan" /\ result = "none" /\ stack = <<>>
    /\ TreeHeight(database, TableRoot(database)) = 3
    /\ Len(emitted) >= 3

\* The number an index record's rowid column stands for.
RowidNumber(c) == CASE c.tag = "False" -> 0 [] c.tag = "True" -> 1 [] OTHER -> c.v

EntryAt(db, o) == parse_record(StreamAt(db, o), 2).rec

\* The order of the index: by key, then by rowid.
EntryBefore(db, o1, o2) ==
    \/ BytesLess(EntryAt(db, o1)[1].b, EntryAt(db, o2)[1].b)
    \/ /\ EntryAt(db, o1)[1].b = EntryAt(db, o2)[1].b
       /\ RowidNumber(EntryAt(db, o1)[2]) < RowidNumber(EntryAt(db, o2)[2])

C3_IndexRowidIsTableRowid ==
    pc = "index" =>
        \A i \in 1..Len(emitted) :
            query.where.some
              /\ Display(EntryAt(database, emitted[i].meta.offset)[1]) = query.where.val =>
                /\ read_usize(emitted[i].rowid).usable
                /\ \E o \in TableRows(database) :
                      /\ RowidAt(database, o) = read_usize(emitted[i].rowid).v
                      /\ parse_record(StreamAt(database, o), 3).rec[3]
                            = EntryAt(database, emitted[i].meta.offset)[1]

\* The rows of the table in rowid order.
RECURSIVE ByRowid(_, _)
ByRowid(db, rows) ==
    IF rows = {} THEN <<>>
    ELSE LET first == CHOOSE o \in rows : \A r \in rows : RowidAt(db, o) <= RowidAt(db, r)
         IN  <<first>> \o ByRowid(db, rows \ {first})

\* The position of a declared column of the table.
Ordinal(name) == CHOOSE i \in 1..Len(Columns) : Columns[i] = name

ValueAt(db, o, name) == parse_record(StreamAt(db, o), Len(Columns)).rec[Ordinal(name)]

FieldAt(db, o, name) ==
    IF name = "id" THEN to_string(RowidAt(db, o)) ELSE Display(ValueAt(db, o, name))

Selected(db, q, o) == q.where.some => Display(ValueAt(db, o, q.where.col)) = q.where.val

\* What a query asks of the rows at offsets os, in their order: for each
\* row the filter selects, the fields of the projected columns in the
\* requested order, each one followed by '|'.
RECURSIVE ExpectedFor(_, _, _)
ExpectedFor(db, q, os) ==
    IF os = <<>> THEN <<>>
    ELSE (IF Selected(db, q, Head(os))
          THEN <<Concat([c \in 1..Len(q.columns) |->
                            FieldAt(db, Head(os), q.columns[c]) \o <<Pipe>>])>>
          ELSE <<>>) \o ExpectedFor(db, q, Tail(os))

\* The query names the table and declared columns only.
KnownNames(q) ==
    /\ q.table = "companies"
    /\ \A c \in Range(q.columns) : c = "id" \/ c \in Range(Columns)
    /\ q.where.some => q.where.col \in Range(Columns)

\* C5: a full scan prints, in table order, exactly the rows whose filter
\* column displays as the literal (every row without a filter), and for
\* each the projected values in the requested order: the rowid for "id",
\* the display text of the value at the column's declared ordinal otherwise.
C5_FullScan ==
    fn = "read_columns" /\ KnownNames(query) =>
        /\ result # "Panic"
        /\ raws = ExpectedFor(database, query, EmittedOffsets)
        /\ Len(lines) = Len(raws)
        /\ pc = "done" =>
              raws = ExpectedFor(database, query, ByRowid(database, TableRows(database)))

\* A filtered scan that kept two rows of four, "id" not the only column.
C5_Witness ==
    /\ fn = "read_columns" /\ pc = "done" /\ result = "Ok"
    /\ query.where.some /\ Len(query.columns) >= 2
    /\ Len(emitted) = 4 /\ Len(raws) = 2

\* C4: an equality-filtered query on the indexed column gives the same
\* rows in the same order through read_index as through the full scan.
C4_IndexPathAgrees ==
    fn = "read_index" /\ result # "none" /\ KnownNames(query)
      /\ query.where.some /\ query.where.col = "country" =>
        /\ result = "Ok"
        /\ raws = ExpectedFor(database, query, ByRowid(database, TableRows(database)))
        /\ lines = [i \in 1..Len(raws) |-> trim_end_matches(raws[i])]

\* C8: count(*) reports the number of rows of the table: the sum of
\* number_of_cells over the leaf pages of its tree.
C8_CountIsRowCount ==
    fn = "count_rows_in_table" /\ result # "none" /\ query.table = "companies" =>
        /\ result = "Ok"
        /\ lines = <<to_string(Cardinality(TableRows(database)))>>

\* C10: a query naming an unknown table or an unknown projected or filter
\* column ends with an error value; the process never dies of it.
C10_UnknownNamesAreErrors ==
    fn # "none" /\ ~KnownNames(query) => result \in {"none", "Err"}

\* The number of '|' separators of a printed line (no stored text holds one).
Separators(line) == Cardinality({ i \in 1..Len(line) : line[i] = Pipe })

\* C14: every line read_columns and read_index print holds one field per
\* projected column: exactly Len(columns) - 1 separators, for every row,
\* rows whose last projected values display as the empty string included.
C14_OneFieldPerColumn ==
    fn \in {"read_columns", "read_index"} =>
        \A i \in 1..Len(lines) : Separators(lines[i]) = Len(query.columns) - 1

\* A cell whose declared payload size exceeds the payload bytes its page
\* holds.
SpilledCell(cell) ==
    cell.size # <<>> /\ parse_varint(cell.size).value > Len(cell.payload)

\* The traversal stands at a spilled cell.
AtSpilledCell ==
    /\ pc \in {"scan", "index", "lookup"} /\ stack # <<>>
    /\ Top.idx < Len(TopCells)
    /\ SpilledCell(cell_at(TopCells, Top.idx))

\* C11: a cell whose declared payload size exceeds what its page holds
\* makes the traversal or the decoding of its record fail with an error
\* value: no item of such a cell is handed on and consumed without that
\* error (no row is printed from bytes beyond the page or from a cut
\* payload), and the process does not die at such a cell.
C11_OverflowIsRefused ==
    /\ \A i \in 1..Len(emitted) :
          SpilledCell(CellAt(database, emitted[i].meta.offset)) => result = "Err"
    /\ AtSpilledCell => result \in {"none", "Err"}

\* The rows of the catalog tree in traversal order, as schema entries.
CatalogRows(db) ==
    LET order == InOrder(db, 1)
    IN  [i \in 1..Len(order) |-> CatalogEntry(RowidAt(db, order[i]), db.flavour)]

\* C12: read_db_header returns one schema entry per row of the catalog
\* tree rooted at page 1, in traversal order, whatever the shape of the
\* tree: also when page 1 is an interior page and the rows are on its
\* children.
C12_CatalogOfAnyShape ==
    pc = "returned" =>
        /\ ret.tag = "Ok"
        /\ ret.schemas = CatalogRows(database)

\* A child pointer below page id leads back to a page on the way to it.
RECURSIVE HasCycle(_, _, _)
HasCycle(db, id, path) ==
    \/ id \in path
    \/ Interior(db, id) /\ \E c \in Kids(db, id) : HasCycle(db, c, path \cup {id})

\* The root of the tree the running call is traversing.
CurrentRoot == IF pc = "index" THEN IndexRoot(database) ELSE TableRoot(database)

\* The call has a tree with a cycle to traverse.
MeetsCycle ==
    \/ fn \in {"read_columns", "read_index"} /\ HasCycle(database, TableRoot(database), {})
    \/ fn = "read_index" /\ HasCycle(database, IndexRoot(database), {})

\* The nesting stays within the height of the tree and the entries
\* emitted within the cells of the tree.
DepthBounded ==
    pc \in {"scan", "index", "lookup"} =>
        \/ HasCycle(database, CurrentRoot, {})
        \/ /\ Len(stack) <= TreeHeight(database, CurrentRoot)
           /\ Len(emitted) <= Cardinality(IF pc = "index" THEN IndexEntries(database)
                                           ELSE TableRows(database))

\* C13: on a file whose child pointers form a tree a started traversal
\* finishes, after finitely many entries and with a nesting no deeper
\* than the tree is high; on a file where a child pointer leads to the
\* page itself or to an ancestor the traversal never finishes and no
\* error is returned: the nesting grows until the stack is exhausted.
C13_TerminatesUnlessCyclic ==
    /\ [] DepthBounded
    /\ (fn # "none" /\ ~MeetsCycle) ~> (pc = "done" /\ result = "Ok")
    /\ [] (MeetsCycle => pc # "done" /\ result \in {"none", "Overflow"})
    /\ (fn # "none" /\ MeetsCycle) ~> (result = "Overflow")

\* A traversal that emitted rows and then went around a cycle through a
\* left child pointer until the stack was exhausted.
C13_Witness ==
    /\ MeetsCycle /\ result = "Overflow"
    /\ Len(stack) = StackLimit /\ Len(emitted) >= 2

=============================================================================
